---- MODULE Spec2Model ----
(***************************************************************************)
(* Model of the Aadhaar Intelligence dashboard's filter-state manager      *)
(* (hooks/useFilters), its query-string serializer, the catalog loader,    *)
(* the pages that load their data from the filters, the debounced search   *)
(* of the header, and the session kept by AuthContext and authApi.         *)
(*                                                                         *)
(* JavaScript strings are sequences of one-character strings, so that the  *)
(* URL encoding and the decimal formatting are computed, not assumed.      *)
(* An optional value (T | undefined, T | null) is <<>> when absent and     *)
(* <<v>> when present.                                                     *)
(***************************************************************************)
EXTENDS Integers, Sequences, FiniteSets, TLC

VARIABLES
    filters,         \* useFilters: const [filters, setFiltersState]
    filterOptions,   \* useFilters: const [filterOptions, setFilterOptions]
    loadingOptions,  \* useFilters: const [loadingOptions, setLoadingOptions]
    optionsError,    \* useFilters: const [optionsError, setOptionsError]
    calls,           \* the fetchOptions() invocations and their promises
    lastOp,          \* history: the operation that produced this state
    prevFilters,     \* history: `filters` before that operation
    filtersRef,      \* the identity of the object held in `filters`
    page,            \* the page that owns this useFilters instance
    pageFetches,     \* the page's data requests in flight: their filters
    pageData,        \* the page's heatmapData / visualsData
    pageLoading,     \* the page's const [loading, setLoading]
    searchQuery,     \* Header: const [searchQuery, setSearchQuery]
    debouncedQuery,  \* Header: useDebounce(searchQuery, 300)
    timers,          \* useDebounce: the pending timers, each with its due
                     \* time and the value its callback will publish
    searchResults,   \* Header: const [searchResults, setSearchResults]
    isSearching,     \* Header: const [isSearching, setIsSearching]
    showSearchResults, \* Header: const [showSearchResults, ...]
    searchCalls,     \* the search() requests in flight: their queries
    mounted,         \* whether the Header (and its useDebounce) is mounted
    now,             \* the clock, in milliseconds
    recentChanges,   \* history: the times of the last three input changes
    authState,       \* AuthProvider: const [state, setState]
    accessToken,     \* authApi: let accessToken
    sessionStorage,  \* sessionStorage: the items auth_token and auth_user
    authCall,        \* the auth request in flight, if any
    apiCall,         \* the checkAuth or refreshToken request in flight
    notifications,   \* NotificationProvider: const [notifications, ...]
    notifClock       \* Date.now() as the NotificationProvider reads it

pageVars == <<filtersRef, page, pageFetches, pageData, pageLoading>>

hookVars == <<filters, filterOptions, loadingOptions, optionsError, calls,
              prevFilters, pageVars>>

searchVars == <<searchResults, isSearching, showSearchResults, searchCalls>>

headerVars == <<searchQuery, debouncedQuery, timers, mounted, now,
                recentChanges, searchVars>>

authVars == <<authState, accessToken, sessionStorage, authCall, apiCall>>

notifVars == <<notifications, notifClock>>

\* what the AuthProvider and authApi leave alone
outsideAuth == <<hookVars, headerVars, notifVars>>

\* what the hook and its page leave alone
outsideHook == <<headerVars, authVars, notifVars>>

\* what the Header's search box leaves alone
outsideHeader == <<hookVars, authVars, notifVars>>

vars == <<filters, filterOptions, loadingOptions, optionsError, calls,
          lastOp, prevFilters, filtersRef, page, pageFetches, pageData,
          pageLoading, searchQuery, debouncedQuery, timers,
          searchResults, isSearching, showSearchResults, searchCalls,
          mounted, now, recentChanges, authState, accessToken,
          sessionStorage, authCall, apiCall, notifications, notifClock>>

\* ------------------------------------------------------------------------
\* Optional values
\* ------------------------------------------------------------------------
Undefined == <<>>

Some(v) == <<v>>

IsSet(o) == o # Undefined

Val(o) == o[1]

\* ------------------------------------------------------------------------
\* String literals used by the program and by the inputs
\* ------------------------------------------------------------------------
EmptyStr == <<>>

S_UP == <<"U", "P">>

S_BR == <<"B", "R">>

D_UP_D1 == <<"U", "P", "-", "D", "1">>

D_UP_D2 == <<"U", "P", "-", "D", "2">>

D_BR_D1 == <<"B", "R", "-", "D", "1">>

D_ODD == <<"A", "&", "B", "=", "C">>

M_Enrolment == <<"E", "n", "r", "o", "l", "m", "e", "n", "t">>

A_60plus == <<"6", "0", "+">>

I_Demand == <<"D", "e", "m", "a", "n", "d">>

I_CompositeRisk ==
    <<"C", "o", "m", "p", "o", "s", "i", "t", "e", "R", "i", "s", "k">>

N_state == <<"s", "t", "a", "t", "e">>

N_district == <<"d", "i", "s", "t", "r", "i", "c", "t">>

N_year == <<"y", "e", "a", "r">>

N_month == <<"m", "o", "n", "t", "h">>

N_metricType == <<"m", "e", "t", "r", "i", "c", "T", "y", "p", "e">>

N_ageGroup == <<"a", "g", "e", "G", "r", "o", "u", "p">>

N_indexType == <<"i", "n", "d", "e", "x", "T", "y", "p", "e">>

\* ------------------------------------------------------------------------
\* Number.prototype.toString() for an integer
\* ------------------------------------------------------------------------
Digit(d) == CASE d = 0 -> "0" [] d = 1 -> "1" [] d = 2 -> "2" [] d = 3 -> "3"
              [] d = 4 -> "4" [] d = 5 -> "5" [] d = 6 -> "6" [] d = 7 -> "7"
              [] d = 8 -> "8" [] d = 9 -> "9"

RECURSIVE NatToString(_)
NatToString(n) ==
    IF n < 10 THEN <<Digit(n)>>
    ELSE NatToString(n \div 10) \o <<Digit(n % 10)>>

NumberToString(n) ==
    IF n < 0 THEN <<"-">> \o NatToString(0 - n) ELSE NatToString(n)

\* ------------------------------------------------------------------------
\* URLSearchParams: append() and toString()
\* (application/x-www-form-urlencoded serialisation)
\* ------------------------------------------------------------------------
\* characters the serialiser leaves as they are
UrlSafeChars ==
    {"A", "B", "C", "D", "E", "F", "G", "H", "I", "J", "K", "L", "M",
     "N", "O", "P", "Q", "R", "S", "T", "U", "V", "W", "X", "Y", "Z",
     "a", "b", "c", "d", "e", "f", "g", "h", "i", "j", "k", "l", "m",
     "n", "o", "p", "q", "r", "s", "t", "u", "v", "w", "x", "y", "z",
     "0", "1", "2", "3", "4", "5", "6", "7", "8", "9",
     "*", "-", ".", "_"}

PercentCode(c) ==
    CASE c = "&" -> <<"%", "2", "6">>
      [] c = "=" -> <<"%", "3", "D">>
      [] c = "+" -> <<"%", "2", "B">>
      [] c = "?" -> <<"%", "3", "F">>
      [] c = "%" -> <<"%", "2", "5">>
      [] c = "/" -> <<"%", "2", "F">>
      [] c = "#" -> <<"%", "2", "3">>

UrlEncodeChar(c) ==
    IF c \in UrlSafeChars THEN <<c>>
    ELSE IF c = " " THEN <<"+">>
    ELSE PercentCode(c)

RECURSIVE UrlEncode(_)
UrlEncode(s) ==
    IF s = <<>> THEN <<>>
    ELSE UrlEncodeChar(Head(s)) \o UrlEncode(Tail(s))

\* params.append(name, value): params is a sequence of <<name, value>>
ParamsAppend(params, name, value) == Append(params, <<name, value>>)

RECURSIVE ParamsToString(_)
ParamsToString(params) ==
    IF params = <<>> THEN <<>>
    ELSE LET p == Head(params)
             one == UrlEncode(p[1]) \o <<"=">> \o UrlEncode(p[2])
         IN  IF Tail(params) = <<>> THEN one
             ELSE one \o <<"&">> \o ParamsToString(Tail(params))

\* ------------------------------------------------------------------------
\* JavaScript truthiness of an optional string / optional number
\* ------------------------------------------------------------------------
TruthyStr(o) == IsSet(o) /\ Val(o) # EmptyStr

TruthyNum(o) == IsSet(o) /\ Val(o) # 0

\* ------------------------------------------------------------------------
\* AppliedFilters and the query string
\* ------------------------------------------------------------------------
INITIAL_FILTERS ==
    [state |-> Undefined, district |-> Undefined, year |-> Undefined,
     month |-> Undefined, metricType |-> Undefined, ageGroup |-> Undefined,
     indexType |-> Undefined]

\* buildQueryString with month appended before year
FilterParams_MonthBeforeYear(f) ==
    LET p0 == <<>>
        p1 == IF TruthyStr(f.state)
              THEN ParamsAppend(p0, N_state, Val(f.state)) ELSE p0
        p2 == IF TruthyStr(f.district)
              THEN ParamsAppend(p1, N_district, Val(f.district)) ELSE p1
        p3 == IF TruthyNum(f.month)
              THEN ParamsAppend(p2, N_month, NumberToString(Val(f.month)))
              ELSE p2
        p4 == IF TruthyNum(f.year)
              THEN ParamsAppend(p3, N_year, NumberToString(Val(f.year)))
              ELSE p3
        p5 == IF TruthyStr(f.metricType)
              THEN ParamsAppend(p4, N_metricType, Val(f.metricType)) ELSE p4
        p6 == IF TruthyStr(f.ageGroup)
              THEN ParamsAppend(p5, N_ageGroup, Val(f.ageGroup)) ELSE p5
    IN  IF TruthyStr(f.indexType)
        THEN ParamsAppend(p6, N_indexType, Val(f.indexType)) ELSE p6

\* the params.append(...) lines of buildQueryString, for a filter value f
FilterParams(f) ==
    LET p0 == <<>>
        p1 == IF TruthyStr(f.state)
              THEN ParamsAppend(p0, N_state, Val(f.state)) ELSE p0
        p2 == IF TruthyStr(f.district)
              THEN ParamsAppend(p1, N_district, Val(f.district)) ELSE p1
        p3 == IF TruthyNum(f.year)
              THEN ParamsAppend(p2, N_year, NumberToString(Val(f.year)))
              ELSE p2
        p4 == IF TruthyNum(f.month)
              THEN ParamsAppend(p3, N_month, NumberToString(Val(f.month)))
              ELSE p3
        p5 == IF TruthyStr(f.metricType)
              THEN ParamsAppend(p4, N_metricType, Val(f.metricType)) ELSE p4
        p6 == IF TruthyStr(f.ageGroup)
              THEN ParamsAppend(p5, N_ageGroup, Val(f.ageGroup)) ELSE p5
    IN  IF TruthyStr(f.indexType)
        THEN ParamsAppend(p6, N_indexType, Val(f.indexType)) ELSE p6

\* the return with the "?" put in front of every string, the empty one too
WithPrefix_Always(queryString) == <<"?">> \o queryString

\* return queryString ? `?${queryString}` : ''
WithPrefix(queryString) ==
    IF queryString # <<>> THEN <<"?">> \o queryString ELSE <<>>

\* the body of buildQueryString for a filter value f
QueryStringOf(f) == WithPrefix(ParamsToString(FilterParams(f)))

\* useFilters().buildQueryString()
buildQueryString == QueryStringOf(filters)

\* a service serializer that tests the fields for presence, not truthiness
apiFilterParams_PresentOnly(f) ==
    LET p0 == <<>>
        p1 == IF IsSet(f.state)
              THEN ParamsAppend(p0, N_state, Val(f.state)) ELSE p0
        p2 == IF IsSet(f.district)
              THEN ParamsAppend(p1, N_district, Val(f.district)) ELSE p1
        p3 == IF IsSet(f.year)
              THEN ParamsAppend(p2, N_year, NumberToString(Val(f.year)))
              ELSE p2
        p4 == IF IsSet(f.month)
              THEN ParamsAppend(p3, N_month, NumberToString(Val(f.month)))
              ELSE p3
        p5 == IF IsSet(f.metricType)
              THEN ParamsAppend(p4, N_metricType, Val(f.metricType)) ELSE p4
        p6 == IF IsSet(f.ageGroup)
              THEN ParamsAppend(p5, N_ageGroup, Val(f.ageGroup)) ELSE p5
    IN  IF IsSet(f.indexType)
        THEN ParamsAppend(p6, N_indexType, Val(f.indexType)) ELSE p6

\* services/aadhaarApi: the params.append(...) lines of its own
\* buildQueryString(filters)
apiFilterParams(f) ==
    LET p0 == <<>>
        p1 == IF TruthyStr(f.state)
              THEN ParamsAppend(p0, N_state, Val(f.state)) ELSE p0
        p2 == IF TruthyStr(f.district)
              THEN ParamsAppend(p1, N_district, Val(f.district)) ELSE p1
        p3 == IF TruthyNum(f.year)
              THEN ParamsAppend(p2, N_year, NumberToString(Val(f.year)))
              ELSE p2
        p4 == IF TruthyNum(f.month)
              THEN ParamsAppend(p3, N_month, NumberToString(Val(f.month)))
              ELSE p3
        p5 == IF TruthyStr(f.metricType)
              THEN ParamsAppend(p4, N_metricType, Val(f.metricType)) ELSE p4
        p6 == IF TruthyStr(f.ageGroup)
              THEN ParamsAppend(p5, N_ageGroup, Val(f.ageGroup)) ELSE p5
    IN  IF TruthyStr(f.indexType)
        THEN ParamsAppend(p6, N_indexType, Val(f.indexType)) ELSE p6

\* services/aadhaarApi: buildQueryString(filters)
apiBuildQueryString(f) ==
    LET queryString == ParamsToString(apiFilterParams(f))
    IN  IF queryString # <<>> THEN <<"?">> \o queryString ELSE <<>>

\* the path fetchHeatmapData(filters) requests
HeatmapPath == <<"/", "d", "a", "s", "h", "b", "o", "a", "r", "d", "/",
                 "h", "e", "a", "t", "m", "a", "p">>

fetchHeatmapDataUrl(f) == HeatmapPath \o apiBuildQueryString(f)

\* the path fetchVisualsData(filters) requests
VisualsPath == <<"/", "d", "a", "s", "h", "b", "o", "a", "r", "d", "/",
                 "v", "i", "s", "u", "a", "l", "s">>

fetchVisualsDataUrl(f) == VisualsPath \o apiBuildQueryString(f)

\* ------------------------------------------------------------------------
\* Filter setters (setFiltersState with an updater)
\* ------------------------------------------------------------------------
\* the updater without the district reset
StateFilterUpdate_KeepDistrict(prev, state) == [prev EXCEPT !.state = state]

\* the updater of setStateFilter: prev => newFilters
StateFilterUpdate(prev, state) ==
    LET newFilters == [prev EXCEPT !.state = state]
    IN  IF state # prev.state
        THEN [newFilters EXCEPT !.district = Undefined]
        ELSE newFilters

\* the identity of the module-level object INITIAL_FILTERS
InitialRef == 0

\* the identity of an object built by this call, ({...prev, field}):
\* different from InitialRef and from the object currently held
FreshRef(current) == IF current = 1 THEN 2 ELSE 1

\* the pages a useFilters instance lives in
Pages == {"heatmap", "charts"}

MaxInFlight == 2

\* a page's data request: setLoading(true); setError(null);
\* await fetchHeatmapData(filters) / fetchVisualsData(filters)
IssueDataFetch(f) ==
    /\ Len(pageFetches) < MaxInFlight
    /\ pageFetches' = Append(pageFetches, f)
    /\ pageLoading' = TRUE
    /\ UNCHANGED pageData

\* the heatmap is loaded at mount and never again
LoadsOnChange_MountOnly(p, oldRef, newRef) == FALSE

\* HeatmapPage: loadHeatmapData is rebuilt when `filters` is another object
\* (useCallback, [filters]) and the effect on [loadHeatmapData] then calls
\* it; ChartsPage has no such effect
LoadsOnChange(p, oldRef, newRef) == p = "heatmap" /\ newRef # oldRef

\* the render after setFiltersState and the effects it runs
PageReaction ==
    /\ page' = page
    /\ IF LoadsOnChange(page, filtersRef, filtersRef')
          THEN IssueDataFetch(filters')
          ELSE UNCHANGED <<pageFetches, pageData, pageLoading>>

\* what every setter leaves alone, and the history it records
FilterFrameOf(opRecord) ==
    /\ prevFilters' = filters
    /\ lastOp' = opRecord
    /\ PageReaction
    /\ UNCHANGED <<filterOptions, loadingOptions, optionsError, calls>>
    /\ UNCHANGED outsideHook

FilterFrame(op) == FilterFrameOf([op |-> op, id |-> 0])

\* a state setter that resets the district on every call
setStateFilter_AlwaysClears(state) ==
    /\ filters' = [filters EXCEPT !.state = state, !.district = Undefined]
    /\ filtersRef' = FreshRef(filtersRef)
    /\ FilterFrame("setStateFilter")

setStateFilter(state) ==
    /\ filters' = StateFilterUpdate(filters, state)
    /\ filtersRef' = FreshRef(filtersRef)
    /\ FilterFrame("setStateFilter")

setDistrictFilter(district) ==
    /\ filters' = [filters EXCEPT !.district = district]
    /\ filtersRef' = FreshRef(filtersRef)
    /\ FilterFrame("setDistrictFilter")

\* a year setter that also resets the month
setYearFilter_ClearsMonth(year) ==
    /\ filters' = [filters EXCEPT !.year = year, !.month = Undefined]
    /\ filtersRef' = FreshRef(filtersRef)
    /\ FilterFrame("setYearFilter")

setYearFilter(year) ==
    /\ filters' = [filters EXCEPT !.year = year]
    /\ filtersRef' = FreshRef(filtersRef)
    /\ FilterFrame("setYearFilter")

setMonthFilter(month) ==
    /\ filters' = [filters EXCEPT !.month = month]
    /\ filtersRef' = FreshRef(filtersRef)
    /\ FilterFrame("setMonthFilter")

setMetricTypeFilter(metricType) ==
    /\ filters' = [filters EXCEPT !.metricType = metricType]
    /\ filtersRef' = FreshRef(filtersRef)
    /\ FilterFrame("setMetricTypeFilter")

setAgeGroupFilter(ageGroup) ==
    /\ filters' = [filters EXCEPT !.ageGroup = ageGroup]
    /\ filtersRef' = FreshRef(filtersRef)
    /\ FilterFrame("setAgeGroupFilter")

setIndexTypeFilter(indexType) ==
    /\ filters' = [filters EXCEPT !.indexType = indexType]
    /\ filtersRef' = FreshRef(filtersRef)
    /\ FilterFrame("setIndexTypeFilter")

\* the object handed to setFilters is the caller's: one it has just built
\* or, when it has the value of the current filters, possibly that object
CallerRefs(newFilters) ==
    IF newFilters = filters THEN {filtersRef, FreshRef(filtersRef)}
    ELSE {FreshRef(filtersRef)}

\* a setFilters that drops a district given without a state
setFilters_Normalized(newFilters) ==
    /\ filters' = IF IsSet(newFilters.state) THEN newFilters
                  ELSE [newFilters EXCEPT !.district = Undefined]
    /\ filtersRef' \in CallerRefs(newFilters)
    /\ FilterFrameOf([op |-> "setFilters", id |-> 0, arg |-> newFilters])

setFilters(newFilters) ==
    /\ filters' = newFilters
    /\ filtersRef' \in CallerRefs(newFilters)
    /\ FilterFrameOf([op |-> "setFilters", id |-> 0, arg |-> newFilters])

\* a clear that keeps the selected state
clearFilters_KeepsState ==
    /\ filters' = [INITIAL_FILTERS EXCEPT !.state = filters.state]
    /\ filtersRef' = FreshRef(filtersRef)
    /\ FilterFrame("clearFilters")

clearFilters ==
    /\ filters' = INITIAL_FILTERS
    /\ filtersRef' = InitialRef
    /\ FilterFrame("clearFilters")

\* FilterBar: const hasActiveFilters
hasActiveFilters == \E k \in DOMAIN filters : filters[k] # Undefined

\* FilterBar's "Clear" button, rendered when a filter is active
onClearFilters ==
    /\ hasActiveFilters
    /\ clearFilters

\* what a page's own handlers leave alone
PageFrame ==
    /\ prevFilters' = filters
    /\ UNCHANGED <<filters, filtersRef, page, filterOptions, loadingOptions,
                   optionsError, calls>>
    /\ UNCHANGED outsideHook

\* ChartsPage: the "Generate Visuals" button, disabled while loading
handleGenerateVisuals ==
    /\ page = "charts"
    /\ ~pageLoading
    /\ IssueDataFetch(filters)
    /\ lastOp' = [op |-> "handleGenerateVisuals", id |-> 0]
    /\ PageFrame

\* the sequence without its i-th element
RemoveAt(seq, i) == SubSeq(seq, 1, i - 1) \o SubSeq(seq, i + 1, Len(seq))

\* after the await: setHeatmapData(data) / setVisualsData(data); finally
\* setLoading(false). The data answers the filters the request was made with
loadDataThen(i) ==
    /\ i \in 1..Len(pageFetches)
    /\ pageData' = Some([source |-> "api", filters |-> pageFetches[i]])
    /\ pageFetches' = RemoveAt(pageFetches, i)
    /\ pageLoading' = FALSE
    /\ lastOp' = [op |-> "loadDataThen", id |-> 0]
    /\ PageFrame

\* after the await, catch branch: mock data; finally setLoading(false)
loadDataCatch(i) ==
    /\ i \in 1..Len(pageFetches)
    /\ pageData' = Some([source |-> "mock", filters |-> pageFetches[i]])
    /\ pageFetches' = RemoveAt(pageFetches, i)
    /\ pageLoading' = FALSE
    /\ lastOp' = [op |-> "loadDataCatch", id |-> 0]
    /\ PageFrame

\* ------------------------------------------------------------------------
\* Inputs of the setters
\* ------------------------------------------------------------------------
RegionInputs == {Undefined, Some(EmptyStr), Some(S_UP), Some(S_BR)}

DistrictInputs == {Undefined, Some(D_UP_D1), Some(D_ODD)}

YearInputs == {Undefined, Some(0), Some(2025)}

MonthInputs == {Undefined, Some(12)}

MetricTypeInputs == {Undefined, Some(M_Enrolment)}

AgeGroupInputs == {Undefined, Some(A_60plus)}

IndexTypeInputs == {Undefined, Some(I_Demand)}

\* whole filter sets handed to setFilters (the filter sets of the stored
\* reports, and one whose district is set while its state is not)
FilterSetInputs ==
    {[INITIAL_FILTERS EXCEPT !.year = Some(2025), !.month = Some(12)],
     [INITIAL_FILTERS EXCEPT !.state = Some(S_UP), !.year = Some(2025)],
     [INITIAL_FILTERS EXCEPT !.year = Some(2025),
                             !.indexType = Some(I_CompositeRisk)],
     [INITIAL_FILTERS EXCEPT !.state = Some(S_BR)],
     [INITIAL_FILTERS EXCEPT !.district = Some(D_UP_D1)]}

\* ------------------------------------------------------------------------
\* The catalog (FilterOptions) and its loader
\* ------------------------------------------------------------------------
MonthLabel ==
    <<"January", "February", "March", "April", "May", "June", "July",
      "August", "September", "October", "November", "December">>

\* fallback options that lack December
FallbackOptions_ElevenMonths ==
    [states |-> <<>>,
     districts |-> <<>>,
     years |-> <<2024, 2025, 2026>>,
     months |-> [i \in 1..11 |-> [value |-> i, label |-> MonthLabel[i]]],
     metricTypes |-> <<"Enrolment", "Biometric", "Demographic">>,
     ageGroups |-> <<"All", "0-5", "5-18", "18-60", "60+">>,
     indexTypes |-> <<"Demand", "Stress", "Gap", "CompositeRisk">>]

\* the fallback options of fetchOptions' catch block
FallbackOptions ==
    [states |-> <<>>,
     districts |-> <<>>,
     years |-> <<2024, 2025, 2026>>,
     months |-> [i \in 1..12 |-> [value |-> i, label |-> MonthLabel[i]]],
     metricTypes |-> <<"Enrolment", "Biometric", "Demographic">>,
     ageGroups |-> <<"All", "0-5", "5-18", "18-60", "60+">>,
     indexTypes |-> <<"Demand", "Stress", "Gap", "CompositeRisk">>]

\* two catalogs the metadata endpoint may answer with: a well-formed one
\* and one with a district whose state is not in the catalog
RemoteOptionsA ==
    [FallbackOptions EXCEPT
        !.states = <<[code |-> S_UP, name |-> "Uttar Pradesh"],
                     [code |-> S_BR, name |-> "Bihar"]>>,
        !.districts = <<[code |-> D_UP_D1, name |-> "Lucknow", stateCode |-> S_UP],
                        [code |-> D_BR_D1, name |-> "Patna", stateCode |-> S_BR],
                        [code |-> D_UP_D2, name |-> "Kanpur", stateCode |-> S_UP]>>,
        !.years = <<2025, 2026>>]

RemoteOptionsB ==
    [FallbackOptions EXCEPT
        !.states = <<[code |-> S_BR, name |-> "Bihar"]>>,
        !.districts = <<[code |-> D_ODD, name |-> "Orphan", stateCode |-> S_UP],
                        [code |-> D_BR_D1, name |-> "Patna", stateCode |-> S_BR]>>]

RemoteOptions == {RemoteOptionsA, RemoteOptionsB}

\* the ways apiFetch('/metadata/filters') fails, and the Error message of each
FailureKinds == {"unauthorized", "server", "network"}

ErrorMessage(kind) ==
    CASE kind = "unauthorized" -> "Session expired. Please login again."
      [] kind = "server" -> "API Error (500): "
      [] kind = "network" -> "Failed to fetch"

MaxCalls == 2

CallIds == 1..MaxCalls

IdleCall ==
    [status |-> "idle", options |-> Undefined, message |-> "",
     promise |-> "none"]

\* a fetchOptions() call that has been invoked and has not completed
InFlight(id) == calls[id].status \in {"pending", "fulfilled", "rejected"}

NoCallInFlight == \A id \in CallIds : ~InFlight(id)

\* fetchOptions(), up to its await: the mount effect runs it once, and
\* refreshOptions is the same function
fetchOptions(id) ==
    /\ calls[id].status = "idle"
    /\ \A j \in CallIds : j < id => calls[j].status # "idle"
    /\ loadingOptions' = TRUE
    /\ optionsError' = Undefined
    /\ calls' = [calls EXCEPT ![id] = [IdleCall EXCEPT !.status = "pending",
                                                     !.promise = "pending"]]
    /\ lastOp' = [op |-> "fetchOptions", id |-> id]
    /\ prevFilters' = filters
    /\ UNCHANGED <<filters, filterOptions>>
    /\ UNCHANGED <<outsideHook, pageVars>>

\* fetchFilterMetadata() resolves with the endpoint's options
MetadataResolves(id, options) ==
    /\ calls[id].status = "pending"
    /\ calls' = [calls EXCEPT ![id].status = "fulfilled",
                              ![id].options = Some(options)]
    /\ lastOp' = [op |-> "metadataResolves", id |-> id]
    /\ prevFilters' = filters
    /\ UNCHANGED <<filters, filterOptions, loadingOptions, optionsError>>
    /\ UNCHANGED <<outsideHook, pageVars>>

\* fetchFilterMetadata() rejects (401, non-2xx, transport error)
MetadataRejects(id, kind) ==
    /\ calls[id].status = "pending"
    /\ calls' = [calls EXCEPT ![id].status = "rejected",
                              ![id].message = ErrorMessage(kind)]
    /\ lastOp' = [op |-> "metadataRejects", id |-> id]
    /\ prevFilters' = filters
    /\ UNCHANGED <<filters, filterOptions, loadingOptions, optionsError>>
    /\ UNCHANGED <<outsideHook, pageVars>>

\* the finally block
FinallyLoading == FALSE

\* a completion that also puts the filters back to their initial value
fetchOptionsThen_ResetsFilters(id) ==
    /\ calls[id].status = "fulfilled"
    /\ filterOptions' = calls[id].options
    /\ loadingOptions' = FinallyLoading
    /\ calls' = [calls EXCEPT ![id].status = "done",
                              ![id].promise = "resolved"]
    /\ lastOp' = [op |-> "fetchOptionsThen", id |-> id]
    /\ prevFilters' = filters
    /\ filters' = INITIAL_FILTERS
    /\ UNCHANGED <<optionsError>>
    /\ UNCHANGED <<outsideHook, pageVars>>

\* after the await, try branch: setFilterOptions(options); finally
fetchOptionsThen(id) ==
    /\ calls[id].status = "fulfilled"
    /\ filterOptions' = calls[id].options
    /\ loadingOptions' = FinallyLoading
    /\ calls' = [calls EXCEPT ![id].status = "done",
                              ![id].promise = "resolved"]
    /\ lastOp' = [op |-> "fetchOptionsThen", id |-> id]
    /\ prevFilters' = filters
    /\ UNCHANGED <<filters, optionsError>>
    /\ UNCHANGED <<outsideHook, pageVars>>

\* a catch block that leaves no message behind
CatchError_Cleared(message) == Undefined

\* the error recorded by the catch block
CatchError(message) == Some(message)

\* a catch block that records the error and sets no fallback options
fetchOptionsCatch_NoFallback(id) ==
    /\ calls[id].status = "rejected"
    /\ optionsError' = CatchError(calls[id].message)
    /\ loadingOptions' = FinallyLoading
    /\ calls' = [calls EXCEPT ![id].status = "done",
                              ![id].promise = "resolved"]
    /\ lastOp' = [op |-> "fetchOptionsCatch", id |-> id]
    /\ prevFilters' = filters
    /\ UNCHANGED <<filters, filterOptions>>
    /\ UNCHANGED <<outsideHook, pageVars>>

\* after the await, catch branch: setOptionsError, fallback options; finally
fetchOptionsCatch(id) ==
    /\ calls[id].status = "rejected"
    /\ optionsError' = CatchError(calls[id].message)
    /\ filterOptions' = Some(FallbackOptions)
    /\ loadingOptions' = FinallyLoading
    /\ calls' = [calls EXCEPT ![id].status = "done",
                              ![id].promise = "resolved"]
    /\ lastOp' = [op |-> "fetchOptionsCatch", id |-> id]
    /\ prevFilters' = filters
    /\ UNCHANGED <<filters>>
    /\ UNCHANGED <<outsideHook, pageVars>>

\* useMemo: filteredDistricts
filteredDistricts ==
    IF ~IsSet(filterOptions) THEN <<>>
    ELSE IF ~TruthyStr(filters.state) THEN Val(filterOptions).districts
    ELSE LET Matches(d) == d.stateCode = Val(filters.state)
         IN  SelectSeq(Val(filterOptions).districts, Matches)

\* ------------------------------------------------------------------------
\* Header search box and useDebounce
\* ------------------------------------------------------------------------
\* a delay longer than the one the header asks for
DebounceDelay_Late == 300 + 50

\* useDebounce(searchQuery, 300)
DebounceDelay == 300

\* texts typed into the search box
SearchInputs == {EmptyStr, <<"u">>, <<"u", "p">>, <<"N", "o">>}

\* the clock advances in steps of these sizes, up to MaxTime
TimeSteps == {50, 100}

MaxTime == 700

\* the searches that can be in flight at once: one per elapsed delay
MaxSearches == MaxTime \div DebounceDelay

\* a new timer is started and the pending one is left running
RestartTimer_NoCancel(pending, t, delay, value) ==
    pending \cup {[due |-> t + delay, value |-> value]}

\* useDebounce's effect on a changed value: the pending timer is cancelled
\* and a new one is started, due after the delay, whose callback publishes
\* the value of that render
RestartTimer(pending, t, delay, value) ==
    {[due |-> t + delay, value |-> value]}

RecordChange(log, t) ==
    IF Len(log) < 3 THEN Append(log, t) ELSE Append(Tail(log), t)

\* onChange of the search box: setSearchQuery(e.target.value); the render
\* that follows hands the new value to useDebounce
\* String.prototype.toLowerCase, on the letters A-Z
UpperLetters ==
    <<"A", "B", "C", "D", "E", "F", "G", "H", "I", "J", "K", "L", "M",
      "N", "O", "P", "Q", "R", "S", "T", "U", "V", "W", "X", "Y", "Z">>

LowerLetters ==
    <<"a", "b", "c", "d", "e", "f", "g", "h", "i", "j", "k", "l", "m",
      "n", "o", "p", "q", "r", "s", "t", "u", "v", "w", "x", "y", "z">>

ToLowerChar(c) ==
    IF \E i \in 1..Len(UpperLetters) : UpperLetters[i] = c
      THEN LowerLetters[CHOOSE i \in 1..Len(UpperLetters) : UpperLetters[i] = c]
      ELSE c

ToLowerCase(str) == [i \in 1..Len(str) |-> ToLowerChar(str[i])]

\* String.prototype.includes
Includes(str, part) ==
    \E i \in 1..(Len(str) - Len(part) + 1) :
        SubSeq(str, i, i + Len(part) - 1) = part

\* the mock results of the catch branch
MockSearchResults ==
    <<[id |-> "1", type |-> "state",
       title |-> <<"U", "t", "t", "a", "r", " ", "P", "r", "a", "d", "e",
                   "s", "h">>],
      [id |-> "2", type |-> "district",
       title |-> <<"L", "u", "c", "k", "n", "o", "w">>],
      [id |-> "3", type |-> "alert",
       title |-> <<"A", "n", "o", "m", "a", "l", "y", " ", "D", "e", "t",
                   "e", "c", "t", "e", "d">>]>>

\* a filter that compares the titles with the query as typed
MockResultsFor_CaseSensitive(query) ==
    LET Matches(r) == Includes(r.title, query)
    IN  SelectSeq(MockSearchResults, Matches)

\* .filter(r => r.title.toLowerCase().includes(debouncedQuery.toLowerCase()))
MockResultsFor(query) ==
    LET Matches(r) == Includes(ToLowerCase(r.title), ToLowerCase(query))
    IN  SelectSeq(MockSearchResults, Matches)

\* what the search endpoint may answer: response.results
RemoteSearchResults ==
    {<<>>,
     <<[id |-> "s-9", type |-> "state",
        title |-> <<"B", "i", "h", "a", "r">>]>>}

\* a search is started for a single character
MinSearchLength_One == 2 - 1

\* if (debouncedQuery.length < 2)
MinSearchLength == 2

\* the effect on [debouncedQuery]: clear and hide below the minimum length,
\* else performSearch() up to its await: setIsSearching(true), search(query)
SearchEffect(query) ==
    IF Len(query) < MinSearchLength
      THEN /\ searchResults' = <<>>
           /\ showSearchResults' = FALSE
           /\ UNCHANGED <<isSearching, searchCalls>>
      ELSE /\ isSearching' = TRUE
           /\ searchCalls' = Append(searchCalls, query)
           /\ UNCHANGED <<searchResults, showSearchResults>>

setSearchQuery(value) ==
    /\ mounted
    /\ value # searchQuery
    /\ searchQuery' = value
    /\ timers' = RestartTimer(timers, now, DebounceDelay, value)
    /\ recentChanges' = RecordChange(recentChanges, now)
    /\ lastOp' = [op |-> "setSearchQuery", id |-> 0]
    /\ UNCHANGED <<debouncedQuery, mounted, now, searchVars>>
    /\ UNCHANGED outsideHeader

\* a due timer's callback: the output takes the value the timer was
\* started with; when that changes the debounced value, the Header renders
\* and runs its effect on [debouncedQuery]
DebounceTimerFires(tm) ==
    /\ tm \in timers
    /\ now >= tm.due
    /\ debouncedQuery' = tm.value
    /\ timers' = timers \ {tm}
    /\ IF tm.value # debouncedQuery
          THEN SearchEffect(tm.value)
          ELSE UNCHANGED searchVars
    /\ lastOp' = [op |-> "debounceTimerFires", id |-> 0]
    /\ UNCHANGED <<searchQuery, mounted, now, recentChanges>>
    /\ UNCHANGED outsideHeader

\* time passes; a due timer fires before the clock moves on
Tick(dt) ==
    /\ now + dt <= MaxTime
    /\ \A tm \in timers : now + dt <= tm.due
    /\ now' = now + dt
    /\ lastOp' = [op |-> "tick", id |-> 0]
    /\ UNCHANGED <<searchQuery, debouncedQuery, timers, mounted,
                   recentChanges, searchVars>>
    /\ UNCHANGED outsideHeader

\* the teardown leaves the pending timer running
CancelOnUnmount_Keep(pending) == pending

\* useDebounce's effect cleanup: the pending timer is cancelled
CancelOnUnmount(pending) == {}

\* the Header is unmounted (the dashboard is left, e.g. at logout)
HeaderUnmount ==
    /\ mounted
    /\ mounted' = FALSE
    /\ timers' = CancelOnUnmount(timers)
    /\ lastOp' = [op |-> "headerUnmount", id |-> 0]
    /\ UNCHANGED <<searchQuery, debouncedQuery, now, recentChanges,
                   searchVars>>
    /\ UNCHANGED outsideHeader

\* what the continuations of performSearch leave alone
SearchFrame ==
    /\ UNCHANGED <<searchQuery, debouncedQuery, timers, mounted, now,
                   recentChanges>>
    /\ UNCHANGED outsideHeader

\* performSearch after the await: setSearchResults(response.results),
\* setShowSearchResults(true); finally setIsSearching(false)
performSearchThen(i, results) ==
    /\ mounted
    /\ i \in 1..Len(searchCalls)
    /\ searchResults' = results
    /\ showSearchResults' = TRUE
    /\ isSearching' = FALSE
    /\ searchCalls' = RemoveAt(searchCalls, i)
    /\ lastOp' = [op |-> "performSearchThen", id |-> 0,
                  arg |-> searchCalls[i]]
    /\ SearchFrame

\* performSearch after the await, catch branch: the mock results that
\* match the query of this call; finally setIsSearching(false)
performSearchCatch(i) ==
    /\ mounted
    /\ i \in 1..Len(searchCalls)
    /\ searchResults' = MockResultsFor(searchCalls[i])
    /\ showSearchResults' = TRUE
    /\ isSearching' = FALSE
    /\ searchCalls' = RemoveAt(searchCalls, i)
    /\ lastOp' = [op |-> "performSearchCatch", id |-> 0,
                  arg |-> searchCalls[i]]
    /\ SearchFrame

\* ------------------------------------------------------------------------
\* AuthContext and the token storage of authApi
\* ------------------------------------------------------------------------
\* String.prototype.startsWith
StartsWith(str, prefix) ==
    /\ Len(str) >= Len(prefix)
    /\ SubSeq(str, 1, Len(prefix)) = prefix

DemoTokenPrefix == <<"d", "e", "m", "o", "-", "t", "o", "k", "e", "n", "-">>

\* the values of Date.now() at a demo login
LoginTimes == {7, 99, 1234}

\* the e-mail addresses typed into the login form
EmailInputs ==
    {<<"t", "@", "x">>, <<"a", ".", "b", "@", "x">>, <<"r", "_", "k", "@", "u">>}

\* split('@')[0]
BeforeAt(str) ==
    IF \E i \in 1..Len(str) : str[i] = "@"
      THEN SubSeq(str, 1,
                  (CHOOSE i \in 1..Len(str) :
                      /\ str[i] = "@"
                      /\ \A j \in 1..(i - 1) : str[j] # "@") - 1)
      ELSE str

\* replace(/[._]/g, ' ')
DotsToSpaces(str) ==
    [i \in 1..Len(str) |-> IF str[i] \in {".", "_"} THEN " " ELSE str[i]]

ToUpperChar(c) ==
    IF \E i \in 1..Len(LowerLetters) : LowerLetters[i] = c
      THEN UpperLetters[CHOOSE i \in 1..Len(LowerLetters) : LowerLetters[i] = c]
      ELSE c

\* \w: a letter, a digit or "_"
IsWordChar(c) ==
    \/ \E i \in 1..Len(LowerLetters) : c \in {LowerLetters[i], UpperLetters[i]}
    \/ c \in {Digit(d) : d \in 0..9}
    \/ c = "_"

\* replace(/\b\w/g, l => l.toUpperCase())
CapitalizeWords(str) ==
    [i \in 1..Len(str) |->
        IF IsWordChar(str[i]) /\ (i = 1 \/ ~IsWordChar(str[i - 1]))
          THEN ToUpperChar(str[i])
          ELSE str[i]]

\* a demo user who keeps a fixed address
DemoUser_FixedEmail(email) ==
    [id |-> "demo-user-1",
     email |-> <<"d", "e", "m", "o", "@", "x">>,
     name |-> CapitalizeWords(DotsToSpaces(BeforeAt(email))),
     role |-> "admin",
     department |-> "Central Analytics"]

\* const demoUser: User = {...}
DemoUser(email) ==
    [id |-> "demo-user-1",
     email |-> email,
     name |-> CapitalizeWords(DotsToSpaces(BeforeAt(email))),
     role |-> "admin",
     department |-> "Central Analytics"]

\* the user and the token the backend answers a login with
RemoteUser(email) ==
    [id |-> "u-17",
     email |-> email,
     name |-> <<"R">>,
     role |-> "analyst",
     department |-> "Operations"]

RemoteTokens == {<<"j", "w", "t", "-", "1">>, <<"j", "w", "t", "-", "2">>}

\* JSON.stringify(user) and JSON.parse: the text is the list of the
\* object's members, in order
UserKeys == <<"id", "email", "name", "role", "department">>

JsonStringify(user) == [i \in 1..Len(UserKeys) |-> <<UserKeys[i], user[UserKeys[i]]>>]

JsonParse(text) ==
    [k \in {text[i][1] : i \in 1..Len(text)} |->
        text[CHOOSE i \in 1..Len(text) : text[i][1] = k][2]]

\* the AuthState values that setState installs
Unauthenticated ==
    [user |-> Undefined, isAuthenticated |-> FALSE, isLoading |-> FALSE,
     error |-> Undefined]

Authenticated(user) ==
    [user |-> Some(user), isAuthenticated |-> TRUE, isLoading |-> FALSE,
     error |-> Undefined]

EmptyStorage == [auth_token |-> Undefined, auth_user |-> Undefined]

\* getAuthToken: the in-memory token, else the stored one
getAuthToken ==
    IF TruthyStr(accessToken) THEN accessToken ELSE sessionStorage.auth_token

\* getStoredUser
getStoredUser ==
    IF IsSet(sessionStorage.auth_user)
      THEN Some(JsonParse(Val(sessionStorage.auth_user)))
      ELSE Undefined

\* setAuthToken(token); setStoredUser(user)
StoreSession(token, user) ==
    /\ accessToken' = Some(token)
    /\ sessionStorage' = [auth_token |-> Some(token),
                          auth_user |-> Some(JsonStringify(user))]

\* clearAuthData
clearAuthData ==
    /\ accessToken' = Undefined
    /\ sessionStorage' = EmptyStorage

\* login(credentials) up to its await: the login form is on screen only
\* while the state is neither loading nor authenticated
login(email) ==
    /\ ~authState.isLoading
    /\ ~authState.isAuthenticated
    /\ authState' = [authState EXCEPT !.isLoading = TRUE,
                                      !.error = Undefined]
    /\ authCall' = Some([kind |-> "login", email |-> email])
    /\ UNCHANGED <<accessToken, sessionStorage>>
    /\ UNCHANGED <<apiCall, outsideAuth>>
    /\ lastOp' = [op |-> "login", id |-> 0]

\* apiLogin resolved: the token and the user of the response are stored and
\* the state is authenticated
loginThen(token) ==
    /\ IsSet(authCall)
    /\ Val(authCall).kind = "login"
    /\ StoreSession(token, RemoteUser(Val(authCall).email))
    /\ authState' = Authenticated(RemoteUser(Val(authCall).email))
    /\ authCall' = Undefined
    /\ UNCHANGED <<apiCall, outsideAuth>>
    /\ lastOp' = [op |-> "loginThen", id |-> 0, token |-> Some(token)]

\* apiLogin rejected, for whatever reason: the catch branch logs in a demo
\* user under a token "demo-token-" + Date.now()
loginCatch(kind, time) ==
    /\ IsSet(authCall)
    /\ Val(authCall).kind = "login"
    /\ StoreSession(DemoTokenPrefix \o NumberToString(time),
                    DemoUser(Val(authCall).email))
    /\ authState' = Authenticated(DemoUser(Val(authCall).email))
    /\ authCall' = Undefined
    /\ UNCHANGED <<apiCall, outsideAuth>>
    /\ lastOp' = [op |-> "loginCatch", id |-> 0,
                  arg |-> [email |-> Val(authCall).email, kind |-> kind],
                  token |-> Some(DemoTokenPrefix \o NumberToString(time))]

\* the message of a failed auth request: errorData.message ||
\* `Auth Error (${response.status})`, or the message of fetch's own error
AuthErrorMessage(kind) ==
    CASE kind = "unauthorized" -> "Auth Error (401)"
      [] kind = "server" -> "Auth Error (500)"
      [] kind = "network" -> "Failed to fetch"

\* loginWithGoogle(payload) up to its await
loginWithGoogle(email) ==
    /\ ~authState.isLoading
    /\ ~authState.isAuthenticated
    /\ authState' = [authState EXCEPT !.isLoading = TRUE,
                                      !.error = Undefined]
    /\ authCall' = Some([kind |-> "google", email |-> email])
    /\ UNCHANGED <<accessToken, sessionStorage>>
    /\ UNCHANGED <<apiCall, outsideAuth>>
    /\ lastOp' = [op |-> "loginWithGoogle", id |-> 0]

\* apiGoogleLogin resolved
loginWithGoogleThen(token) ==
    /\ IsSet(authCall)
    /\ Val(authCall).kind = "google"
    /\ StoreSession(token, RemoteUser(Val(authCall).email))
    /\ authState' = Authenticated(RemoteUser(Val(authCall).email))
    /\ authCall' = Undefined
    /\ UNCHANGED <<apiCall, outsideAuth>>
    /\ lastOp' = [op |-> "loginWithGoogleThen", id |-> 0,
                  token |-> Some(token)]

\* a Google login that falls back to the demo user as login() does
loginWithGoogleCatch_DemoFallback(kind) ==
    /\ IsSet(authCall)
    /\ Val(authCall).kind = "google"
    /\ authState' = Authenticated(DemoUser(Val(authCall).email))
    /\ authCall' = Undefined
    /\ UNCHANGED <<accessToken, sessionStorage>>
    /\ UNCHANGED <<apiCall, outsideAuth>>
    /\ lastOp' = [op |-> "loginWithGoogleCatch", id |-> 0,
                  arg |-> [error |-> AuthErrorMessage(kind),
                           rethrown |-> FALSE]]

\* apiGoogleLogin rejected: the error is kept in the state and rethrown
loginWithGoogleCatch(kind) ==
    /\ IsSet(authCall)
    /\ Val(authCall).kind = "google"
    /\ authState' = [authState EXCEPT !.isLoading = FALSE,
                                      !.error = Some(AuthErrorMessage(kind))]
    /\ authCall' = Undefined
    /\ UNCHANGED <<accessToken, sessionStorage>>
    /\ UNCHANGED <<apiCall, outsideAuth>>
    /\ lastOp' = [op |-> "loginWithGoogleCatch", id |-> 0,
                  arg |-> [error |-> AuthErrorMessage(kind),
                           rethrown |-> TRUE]]

\* apiFetch: a data request of the dashboard is answered 401:
\* clearAuthData(), dispatchAuthError(); nothing listens to that event, so
\* the AuthState stays as it is
apiFetchUnauthorized ==
    /\ authState.isAuthenticated
    /\ clearAuthData
    /\ UNCHANGED <<authState, authCall>>
    /\ UNCHANGED <<apiCall, outsideAuth>>
    /\ lastOp' = [op |-> "apiFetchUnauthorized", id |-> 0,
                  arg |-> ErrorMessage("unauthorized")]

\* the stored demo session is verified with the backend like any other
IsDemoToken_Never(token) == FALSE

\* token.startsWith('demo-token-')
IsDemoToken(token) == StartsWith(token, DemoTokenPrefix)

\* the page is loaded again in the same tab: the module's accessToken is
\* gone, the session storage is kept, and the AuthProvider mounts and runs
\* initAuth up to its first await
initAuth ==
    /\ accessToken' = Undefined
    /\ UNCHANGED sessionStorage
    /\ LET token == sessionStorage.auth_token
           user == getStoredUser
       IN  IF IsSet(token) /\ IsSet(user)
             THEN IF IsDemoToken(Val(token))
                    THEN /\ authState' = Authenticated(Val(user))
                         /\ authCall' = Undefined
                    ELSE /\ authState' = [Unauthenticated
                                            EXCEPT !.isLoading = TRUE]
                         /\ authCall' = Some([kind |-> "me",
                                              email |-> Val(user).email])
             ELSE /\ authState' = Unauthenticated
                  /\ authCall' = Undefined
    /\ apiCall' = Undefined
    /\ UNCHANGED outsideAuth
    /\ lastOp' = [op |-> "initAuth", id |-> 0]

\* getCurrentUser resolved: the user is stored and the state authenticated
initAuthThen ==
    /\ IsSet(authCall)
    /\ Val(authCall).kind = "me"
    /\ sessionStorage' =
          [sessionStorage EXCEPT
             !.auth_user = Some(JsonStringify(RemoteUser(Val(authCall).email)))]
    /\ authState' = Authenticated(RemoteUser(Val(authCall).email))
    /\ authCall' = Undefined
    /\ UNCHANGED accessToken
    /\ UNCHANGED <<apiCall, outsideAuth>>
    /\ lastOp' = [op |-> "initAuthThen", id |-> 0]

\* getCurrentUser rejected: clearAuthData, unauthenticated
initAuthCatch ==
    /\ IsSet(authCall)
    /\ Val(authCall).kind = "me"
    /\ clearAuthData
    /\ authState' = Unauthenticated
    /\ authCall' = Undefined
    /\ UNCHANGED <<apiCall, outsideAuth>>
    /\ lastOp' = [op |-> "initAuthCatch", id |-> 0]

\* logout() up to its await, from the Header's user menu
logout ==
    /\ authState.isAuthenticated
    /\ ~authState.isLoading
    /\ authState' = [authState EXCEPT !.isLoading = TRUE]
    /\ authCall' = Some([kind |-> "logout", email |-> EmptyStr])
    /\ UNCHANGED <<accessToken, sessionStorage>>
    /\ UNCHANGED <<apiCall, outsideAuth>>
    /\ lastOp' = [op |-> "logout", id |-> 0]

\* how the /auth/logout request may end
LogoutOutcomes == {"ok"} \cup FailureKinds

\* a logout that ends the session only when the backend confirmed it
logoutFinally_OnlyOnSuccess(outcome) ==
    /\ IsSet(authCall)
    /\ Val(authCall).kind = "logout"
    /\ outcome \in LogoutOutcomes
    /\ IF outcome = "ok"
          THEN clearAuthData /\ authState' = Unauthenticated
          ELSE /\ UNCHANGED <<accessToken, sessionStorage>>
               /\ authState' = [authState EXCEPT !.isLoading = FALSE]
    /\ authCall' = Undefined
    /\ UNCHANGED <<apiCall, outsideAuth>>
    /\ lastOp' = [op |-> "logoutFinally", id |-> 0, arg |-> outcome]

\* apiLogout settled, either way: clearAuthData in its finally, then the
\* finally of logout sets the unauthenticated state (and the rejection, if
\* any, goes on to the caller)
logoutFinally(outcome) ==
    /\ IsSet(authCall)
    /\ Val(authCall).kind = "logout"
    /\ outcome \in LogoutOutcomes
    /\ clearAuthData
    /\ authState' = Unauthenticated
    /\ authCall' = Undefined
    /\ UNCHANGED <<apiCall, outsideAuth>>
    /\ lastOp' = [op |-> "logoutFinally", id |-> 0, arg |-> outcome]

\* the tokens setAuthToken is called with: null, '' and a token
TokenInputs == {Undefined, Some(EmptyStr), Some(<<"j", "w", "t", "-", "1">>)}

\* authApi.setAuthToken(token), called on its own
setAuthToken(token) ==
    /\ accessToken' = token
    /\ sessionStorage' =
          [sessionStorage EXCEPT
             !.auth_token = IF TruthyStr(token) THEN token ELSE Undefined]
    /\ UNCHANGED <<authState, authCall, apiCall>>
    /\ UNCHANGED outsideAuth
    /\ lastOp' = [op |-> "setAuthToken", id |-> 0, token |-> token]

\* authApi.clearAuthData(), called on its own
clearAuthDataCall ==
    /\ clearAuthData
    /\ UNCHANGED <<authState, authCall, apiCall>>
    /\ UNCHANGED outsideAuth
    /\ lastOp' = [op |-> "clearAuthData", id |-> 0]

\* authApi.refreshToken() up to its await
refreshToken ==
    /\ apiCall = Undefined
    /\ apiCall' = Some([kind |-> "refresh"])
    /\ UNCHANGED <<authState, accessToken, sessionStorage, authCall>>
    /\ UNCHANGED outsideAuth
    /\ lastOp' = [op |-> "refreshToken", id |-> 0]

\* /auth/refresh answered: setAuthToken(response.accessToken),
\* setStoredUser(response.user)
refreshTokenThen(token, email) ==
    /\ IsSet(apiCall)
    /\ Val(apiCall).kind = "refresh"
    /\ StoreSession(token, RemoteUser(email))
    /\ apiCall' = Undefined
    /\ UNCHANGED <<authState, authCall>>
    /\ UNCHANGED outsideAuth
    /\ lastOp' = [op |-> "refreshTokenThen", id |-> 0,
                  token |-> Some(token)]

\* /auth/refresh failed: authFetch throws before anything is stored
refreshTokenCatch(kind) ==
    /\ IsSet(apiCall)
    /\ Val(apiCall).kind = "refresh"
    /\ apiCall' = Undefined
    /\ UNCHANGED <<authState, accessToken, sessionStorage, authCall>>
    /\ UNCHANGED outsideAuth
    /\ lastOp' = [op |-> "refreshTokenCatch", id |-> 0, arg |-> kind]

\* checkAuth() up to its await: without a token it returns false at once,
\* else it asks the backend for the current user
checkAuth ==
    /\ apiCall = Undefined
    /\ IF TruthyStr(getAuthToken)
          THEN /\ apiCall' = Some([kind |-> "checkAuth"])
               /\ lastOp' = [op |-> "checkAuth", id |-> 0,
                             arg |-> "pending"]
          ELSE /\ apiCall' = Undefined
               /\ lastOp' = [op |-> "checkAuth", id |-> 0, arg |-> "false"]
    /\ UNCHANGED <<authState, accessToken, sessionStorage, authCall>>
    /\ UNCHANGED outsideAuth

\* getCurrentUser resolved: setStoredUser(user); checkAuth returns true and
\* leaves the state as it is
checkAuthThen(email) ==
    /\ IsSet(apiCall)
    /\ Val(apiCall).kind = "checkAuth"
    /\ sessionStorage' =
          [sessionStorage EXCEPT
             !.auth_user = Some(JsonStringify(RemoteUser(email)))]
    /\ apiCall' = Undefined
    /\ UNCHANGED <<authState, accessToken, authCall>>
    /\ UNCHANGED outsideAuth
    /\ lastOp' = [op |-> "checkAuthThen", id |-> 0, arg |-> "true"]

\* getCurrentUser rejected: clearAuthData, unauthenticated, returns false
checkAuthCatch ==
    /\ IsSet(apiCall)
    /\ Val(apiCall).kind = "checkAuth"
    /\ clearAuthData
    /\ authState' = Unauthenticated
    /\ apiCall' = Undefined
    /\ UNCHANGED authCall
    /\ UNCHANGED outsideAuth
    /\ lastOp' = [op |-> "checkAuthCatch", id |-> 0, arg |-> "false"]

\* ------------------------------------------------------------------------
\* NotificationProvider (hooks/useNotifications)
\* ------------------------------------------------------------------------
\* what the NotificationProvider leaves alone
outsideNotifications == <<hookVars, headerVars, authVars>>

\* the last millisecond of the clock in which a notification is added
MaxNotifClock == 53

\* how many notifications are added within one millisecond at most
MaxPerMs == 2

\* the milliseconds in which a second notification may follow the first
SameMsTimes == {2}

\* Date.now() at an add, counted from the previous add: the same
\* millisecond (0) or a later one (1)
ClockGaps == {0, 1}

\* Math.random().toString(36).substr(2, 9): two of its values
RandomSuffixes == {"k3x9", "0"}

\* what the callers pass: Omit<Notification, 'id' | 'timestamp' | 'read'>
NotificationInputs ==
    {[title |-> "Anomaly Detected", message |-> "Bihar", type |-> "alert"]}

\* `notif_${Date.now()}_${Math.random()...}`: the two parts of the id
NotificationId(time, suffix) == <<time, suffix>>

\* the ids markAsRead is called with; the last one is never in the list
MarkInputs == {NotificationId(2, "k3x9"), NotificationId(3, "k3x9"),
               NotificationId(99, "0")}

\* a list that keeps one entry more
MaxNotifications_OneMore == 50 + 1

\* .slice(0, 50)
MaxNotifications == 50

\* Array.prototype.slice(0, n)
SliceFirst(list, n) ==
    IF Len(list) <= n THEN list ELSE SubSeq(list, 1, n)

\* const unreadCount = notifications.filter(n => !n.read).length
unreadCount ==
    LET Unread(n) == ~n.read
    IN  Len(SelectSeq(notifications, Unread))

\* addNotification(notification). The random suffix matters only between
\* notifications of one millisecond: the first notification of a
\* millisecond is given one suffix that stands for all of them.
addNotification(notification, gap, suffix) ==
    /\ notifClock + gap <= MaxNotifClock
    /\ gap = 0 =>
          /\ notifClock \in SameMsTimes
          /\ Cardinality({i \in DOMAIN notifications :
                 notifications[i].timestamp = notifClock}) < MaxPerMs
    /\ gap # 0 => suffix = "k3x9"
    /\ notifClock' = notifClock + gap
    /\ LET newNotification ==
              [id |-> NotificationId(notifClock', suffix),
               timestamp |-> notifClock',
               read |-> FALSE,
               title |-> notification.title,
               message |-> notification.message,
               type |-> notification.type]
       IN  notifications' =
              SliceFirst(<<newNotification>> \o notifications,
                         MaxNotifications)
    /\ lastOp' = [op |-> "addNotification", id |-> 0]
    /\ UNCHANGED outsideNotifications

\* markAsRead(id)
markAsRead(id) ==
    /\ notifications' =
          [i \in DOMAIN notifications |->
             IF notifications[i].id = id
               THEN [notifications[i] EXCEPT !.read = TRUE]
               ELSE notifications[i]]
    /\ lastOp' = [op |-> "markAsRead", id |-> 0, arg |-> id]
    /\ UNCHANGED notifClock
    /\ UNCHANGED outsideNotifications

\* markAllAsRead()
markAllAsRead ==
    /\ notifications' =
          [i \in DOMAIN notifications |->
             [notifications[i] EXCEPT !.read = TRUE]]
    /\ lastOp' = [op |-> "markAllAsRead", id |-> 0]
    /\ UNCHANGED notifClock
    /\ UNCHANGED outsideNotifications

\* clearNotifications()
clearNotifications ==
    /\ notifications' = <<>>
    /\ lastOp' = [op |-> "clearNotifications", id |-> 0]
    /\ UNCHANGED notifClock
    /\ UNCHANGED outsideNotifications

\* ------------------------------------------------------------------------
\* Specifications
\* ------------------------------------------------------------------------
\* the hook after its first render and mount effect: empty filters, no
\* options, loading, and the mount-time fetchOptions() awaiting the endpoint
HookInit ==
    /\ filters = INITIAL_FILTERS
    /\ filtersRef = InitialRef
    /\ filterOptions = Undefined
    /\ loadingOptions = TRUE
    /\ optionsError = Undefined
    /\ calls = [id \in CallIds |->
                  IF id = 1 THEN [IdleCall EXCEPT !.status = "pending",
                                                  !.promise = "pending"]
                  ELSE IdleCall]
    /\ lastOp = [op |-> "mount", id |-> 1]
    /\ prevFilters = INITIAL_FILTERS
    /\ searchQuery = EmptyStr
    /\ debouncedQuery = EmptyStr
    /\ timers = {}
    /\ mounted = TRUE
    /\ searchResults = <<>>
    /\ isSearching = FALSE
    /\ showSearchResults = FALSE
    /\ searchCalls = <<>>
    /\ now = 0
    /\ recentChanges = <<>>
    /\ authState = Unauthenticated
    /\ accessToken = Undefined
    /\ sessionStorage = EmptyStorage
    /\ authCall = Undefined
    /\ apiCall = Undefined
    /\ notifications = <<>>
    /\ notifClock = 0

\* ChartsPage after mount: no data is requested until "Generate Visuals"
ChartsPageInit ==
    /\ page = "charts"
    /\ pageFetches = <<>>
    /\ pageData = Undefined
    /\ pageLoading = FALSE

\* HeatmapPage after mount: the mount effect has called loadHeatmapData()
HeatmapPageInit ==
    /\ page = "heatmap"
    /\ pageFetches = <<INITIAL_FILTERS>>
    /\ pageData = Undefined
    /\ pageLoading = TRUE

Init == HookInit /\ ChartsPageInit

PageInit == HookInit /\ (ChartsPageInit \/ HeatmapPageInit)

\* the filter state under every setter
Next ==
    \/ \E x \in RegionInputs : setStateFilter(x)
    \/ \E x \in DistrictInputs : setDistrictFilter(x)
    \/ \E x \in YearInputs : setYearFilter(x)
    \/ \E x \in MonthInputs : setMonthFilter(x)
    \/ \E x \in MetricTypeInputs : setMetricTypeFilter(x)
    \/ \E x \in AgeGroupInputs : setAgeGroupFilter(x)
    \/ \E x \in IndexTypeInputs : setIndexTypeFilter(x)
    \/ \E f \in FilterSetInputs : setFilters(f)
    \/ clearFilters

Spec == Init /\ [][Next]_vars

\* the catalog loader, with the region setter that filteredDistricts reads
CatalogNext ==
    \/ \E id \in CallIds : fetchOptions(id)
    \/ \E id \in CallIds, o \in RemoteOptions : MetadataResolves(id, o)
    \/ \E id \in CallIds, k \in FailureKinds : MetadataRejects(id, k)
    \/ \E id \in CallIds : fetchOptionsThen(id)
    \/ \E id \in CallIds : fetchOptionsCatch(id)
    \/ \E x \in RegionInputs : setStateFilter(x)

CatalogSpec == Init /\ [][CatalogNext]_vars

\* the hook as a page drives it through its filter bar (the setters and
\* "Clear"), interleaved with the mount-time catalog load
ManagerNext ==
    \/ \E x \in RegionInputs : setStateFilter(x)
    \/ \E x \in DistrictInputs : setDistrictFilter(x)
    \/ \E x \in YearInputs : setYearFilter(x)
    \/ \E x \in MonthInputs : setMonthFilter(x)
    \/ \E x \in MetricTypeInputs : setMetricTypeFilter(x)
    \/ \E x \in AgeGroupInputs : setAgeGroupFilter(x)
    \/ \E x \in IndexTypeInputs : setIndexTypeFilter(x)
    \/ clearFilters
    \/ \E o \in RemoteOptions : MetadataResolves(1, o)
    \/ \E k \in FailureKinds : MetadataRejects(1, k)
    \/ fetchOptionsThen(1)
    \/ fetchOptionsCatch(1)

ManagerSpec == Init /\ [][ManagerNext]_vars

\* a page with its filter bar: the filters are changed through the bar and
\* the page loads its data
PageNext ==
    \/ \E x \in RegionInputs : setStateFilter(x)
    \/ \E x \in YearInputs : setYearFilter(x)
    \/ onClearFilters
    \/ handleGenerateVisuals
    \/ \E i \in 1..MaxInFlight : loadDataThen(i)
    \/ \E i \in 1..MaxInFlight : loadDataCatch(i)

PageSpec == PageInit /\ [][PageNext]_vars

\* the session: login with its demo fallback, reload, logout
AuthNext ==
    \/ \E e \in EmailInputs : login(e)
    \/ \E t \in RemoteTokens : loginThen(t)
    \/ \E k \in FailureKinds, t \in LoginTimes : loginCatch(k, t)
    \/ \E e \in EmailInputs : loginWithGoogle(e)
    \/ \E t \in RemoteTokens : loginWithGoogleThen(t)
    \/ \E k \in FailureKinds : loginWithGoogleCatch(k)
    \/ apiFetchUnauthorized
    \/ initAuth
    \/ initAuthThen
    \/ initAuthCatch
    \/ logout
    \/ \E o \in LogoutOutcomes : logoutFinally(o)
    \/ checkAuth
    \/ \E e \in EmailInputs : checkAuthThen(e)
    \/ checkAuthCatch

AuthSpec == Init /\ [][AuthNext]_vars

\* the token storage of authApi within one page session (no reload)
TokenNext ==
    \/ \E t \in TokenInputs : setAuthToken(t)
    \/ clearAuthDataCall
    \/ \E e \in EmailInputs : login(e)
    \/ \E t \in RemoteTokens : loginThen(t)
    \/ \E k \in FailureKinds, t \in LoginTimes : loginCatch(k, t)
    \/ \E e \in EmailInputs : loginWithGoogle(e)
    \/ \E t \in RemoteTokens : loginWithGoogleThen(t)
    \/ \E k \in FailureKinds : loginWithGoogleCatch(k)
    \/ refreshToken
    \/ \E t \in RemoteTokens, e \in EmailInputs : refreshTokenThen(t, e)
    \/ \E k \in FailureKinds : refreshTokenCatch(k)
    \/ logout
    \/ \E o \in LogoutOutcomes : logoutFinally(o)

TokenSpec == Init /\ [][TokenNext]_vars

\* the notification store and its four operations
NotificationNext ==
    \/ \E n \in NotificationInputs, g \in ClockGaps, x \in RandomSuffixes :
           addNotification(n, g, x)
    \/ \E id \in MarkInputs : markAsRead(id)
    \/ markAllAsRead
    \/ clearNotifications

NotificationSpec == Init /\ [][NotificationNext]_vars

\* a settled await is resumed by the event loop
CatalogFairness ==
    \A id \in CallIds :
        /\ WF_vars(fetchOptionsThen(id))
        /\ WF_vars(fetchOptionsCatch(id))

CatalogLiveSpec == CatalogSpec /\ CatalogFairness

\* the header's search box and its debounced value
DebounceNext ==
    \/ \E v \in SearchInputs : setSearchQuery(v)
    \/ \E tm \in timers : DebounceTimerFires(tm)
    \/ \E dt \in TimeSteps : Tick(dt)

DebounceSpec == Init /\ [][DebounceNext]_vars

\* the search box with the searches it starts and their completions
SearchNext ==
    \/ \E v \in SearchInputs : setSearchQuery(v)
    \/ \E tm \in timers : DebounceTimerFires(tm)
    \/ \E dt \in TimeSteps : Tick(dt)
    \/ \E i \in 1..MaxSearches, r \in RemoteSearchResults :
           performSearchThen(i, r)
    \/ \E i \in 1..MaxSearches : performSearchCatch(i)

SearchSpec == Init /\ [][SearchNext]_vars

\* the same, with the teardown of the Header
TeardownNext ==
    \/ \E v \in SearchInputs : setSearchQuery(v)
    \/ \E tm \in timers : DebounceTimerFires(tm)
    \/ \E dt \in TimeSteps : Tick(dt)
    \/ HeaderUnmount

TeardownSpec == Init /\ [][TeardownNext]_vars

\* ------------------------------------------------------------------------
\* Reading a query string back: its parameter names, in order
\* ------------------------------------------------------------------------
\* the positions at which a "name=value" pair starts
PairStarts(body) ==
    {1} \cup {j + 1 : j \in {k \in 1..Len(body) : body[k] = "&"}}

\* the name of the pair starting at st: the text up to the next "=" or "&"
NameAt(body, st) ==
    LET stops == {k \in st..Len(body) : body[k] \in {"=", "&"}}
        stop == IF stops = {} THEN Len(body) + 1
                ELSE CHOOSE k \in stops : \A m \in stops : k <= m
    IN  SubSeq(body, st, stop - 1)

ParamNames(qs) ==
    IF qs = <<>> THEN <<>>
    ELSE LET body == IF Head(qs) = "?" THEN Tail(qs) ELSE qs
             starts == PairStarts(body)
             Nth(i) == CHOOSE st \in starts :
                          Cardinality({t \in starts : t < st}) = i - 1
         IN  [i \in 1..Cardinality(starts) |-> NameAt(body, Nth(i))]

WireNames ==
    <<N_state, N_district, N_year, N_month, N_metricType, N_ageGroup,
      N_indexType>>

WireIndex(name) == CHOOSE i \in 1..Len(WireNames) : WireNames[i] = name

HasParam(qs, name) ==
    \E i \in 1..Len(ParamNames(qs)) : ParamNames(qs)[i] = name

\* "?state=UP&year=2025"
ScenarioC_QueryString ==
    <<"?", "s", "t", "a", "t", "e", "=", "U", "P", "&",
      "y", "e", "a", "r", "=", "2", "0", "2", "5">>

\* ------------------------------------------------------------------------
\* C1: after setStateFilter(X) with X different from the region held
\* before (X a value or unset), the district is unset, whatever it was.
\* ------------------------------------------------------------------------
C1_RegionChangeClearsDistrict ==
    (lastOp.op = "setStateFilter" /\ filters.state # prevFilters.state)
        => filters.district = Undefined

\* Scenario A: region UP, district UP-D1, then setStateFilter(BR)
C1_Witness ==
    /\ lastOp.op = "setStateFilter"
    /\ prevFilters.state = Some(S_UP)
    /\ prevFilters.district = Some(D_UP_D1)
    /\ filters.state = Some(S_BR)
    /\ filters.district = Undefined

\* ------------------------------------------------------------------------
\* C2: the parameters of buildQueryString() are wire names in the order
\* state, district, year, month, metricType, ageGroup, indexType, whatever
\* order the setters ran in; {state: UP, year: 2025} gives
\* "?state=UP&year=2025".
\* ------------------------------------------------------------------------
C2_QueryStringOrder ==
    LET names == ParamNames(buildQueryString)
    IN  /\ \A i \in 1..Len(names) : \E k \in 1..Len(WireNames) : WireNames[k] = names[i]
        /\ \A i, j \in 1..Len(names) :
              i < j => WireIndex(names[i]) < WireIndex(names[j])
        /\ filters = [INITIAL_FILTERS EXCEPT !.state = Some(S_UP),
                                             !.year = Some(2025)]
              => buildQueryString = ScenarioC_QueryString

\* the year was set before the state, and the state still comes first
C2_Witness ==
    /\ lastOp.op = "setStateFilter"
    /\ prevFilters = [INITIAL_FILTERS EXCEPT !.year = Some(2025)]
    /\ filters.state = Some(S_UP)
    /\ buildQueryString = ScenarioC_QueryString

\* ------------------------------------------------------------------------
\* C3: a wire parameter is in the output of buildQueryString() if and only
\* if its field is set (not absent), and the output starts with "?" as soon
\* as one field is set.
\* ------------------------------------------------------------------------
C3_ParamIffSet ==
    LET qs == buildQueryString
    IN  /\ HasParam(qs, N_state) <=> IsSet(filters.state)
        /\ HasParam(qs, N_district) <=> IsSet(filters.district)
        /\ HasParam(qs, N_year) <=> IsSet(filters.year)
        /\ HasParam(qs, N_month) <=> IsSet(filters.month)
        /\ HasParam(qs, N_metricType) <=> IsSet(filters.metricType)
        /\ HasParam(qs, N_ageGroup) <=> IsSet(filters.ageGroup)
        /\ HasParam(qs, N_indexType) <=> IsSet(filters.indexType)
        /\ filters # INITIAL_FILTERS => (qs # <<>> /\ Head(qs) = "?")

\* ------------------------------------------------------------------------
\* C4: on the empty filters (at the start, or after clearFilters)
\* buildQueryString() is the empty string, never "?".
\* ------------------------------------------------------------------------
C4_EmptyFiltersEmptyString ==
    filters = INITIAL_FILTERS => buildQueryString = EmptyStr

C4_Witness ==
    /\ lastOp.op = "clearFilters"
    /\ prevFilters.state = Some(S_UP)
    /\ filters = INITIAL_FILTERS
    /\ buildQueryString = EmptyStr

\* ------------------------------------------------------------------------
\* C5: filteredDistricts is the subsequence of the catalog's districts
\* whose stateCode equals the selected region, in catalog order, and the
\* whole list when the region is unset.
\* ------------------------------------------------------------------------
C5_DerivedSubRegions ==
    IsSet(filterOptions) =>
        LET districts == Val(filterOptions).districts
            OfRegion(d) == d.stateCode = Val(filters.state)
        IN  /\ filteredDistricts =
                  IF IsSet(filters.state) THEN SelectSeq(districts, OfRegion)
                  ELSE districts
            /\ IsSet(filters.state) =>
                  \A i \in 1..Len(filteredDistricts) :
                      filteredDistricts[i].stateCode = Val(filters.state)

\* ------------------------------------------------------------------------
\* C6: when the metadata call fails, fetchOptions() resolves and leaves
\* options with years, the twelve months 1..12, the three fixed
\* enumerations and no states or districts, and loadingOptions is false.
\* ------------------------------------------------------------------------
C6_FallbackOnFailure ==
    lastOp.op = "fetchOptionsCatch" =>
        /\ calls[lastOp.id].promise = "resolved"
        /\ loadingOptions = FALSE
        /\ IsSet(filterOptions)
        /\ LET c == Val(filterOptions)
           IN  /\ c.years # <<>>
               /\ Len(c.months) = 12
               /\ \A i \in 1..Len(c.months) : c.months[i].value = i
               /\ c.metricTypes = <<"Enrolment", "Biometric", "Demographic">>
               /\ c.ageGroups = <<"All", "0-5", "5-18", "18-60", "60+">>
               /\ c.indexTypes = <<"Demand", "Stress", "Gap", "CompositeRisk">>
               /\ c.states = <<>>
               /\ c.districts = <<>>

\* a transport failure of the mount-time load has been handled
C6_Witness ==
    /\ lastOp = [op |-> "fetchOptionsCatch", id |-> 1]
    /\ calls[1].message = "Failed to fetch"
    /\ calls[1].promise = "resolved"
    /\ IsSet(filterOptions)
    /\ Len(Val(filterOptions).months) = 12
    /\ loadingOptions = FALSE

\* ------------------------------------------------------------------------
\* C7 (as stated): whenever no load is in flight and the options are the
\* fallback, optionsError is null.
\* ------------------------------------------------------------------------
C7_ErrorClearedAfterFallback ==
    (NoCallInFlight /\ filterOptions = Some(FallbackOptions))
        => optionsError = Undefined

\* ------------------------------------------------------------------------
\* C7 (amended): the failure message is kept. When a failed load completes
\* optionsError is that failure's message; whenever no load is in flight
\* and the options are the fallback, optionsError is not null; and only
\* the start of a later fetchOptions() resets it to null.
\* ------------------------------------------------------------------------
C7_ErrorKeptAfterFallback ==
    /\ [](lastOp.op = "fetchOptionsCatch"
             => /\ optionsError = Some(calls[lastOp.id].message)
                /\ calls[lastOp.id].message # "")
    /\ []((NoCallInFlight /\ filterOptions = Some(FallbackOptions))
             => optionsError # Undefined)
    /\ [][(optionsError # Undefined /\ optionsError' = Undefined)
             => lastOp'.op = "fetchOptions"]_vars

\* the only load failed with a server error and nothing is in flight
C7_Witness ==
    /\ lastOp = [op |-> "fetchOptionsCatch", id |-> 1]
    /\ NoCallInFlight
    /\ filterOptions = Some(FallbackOptions)
    /\ optionsError = Some("API Error (500): ")

\* ------------------------------------------------------------------------
\* C8: loadingOptions is true exactly while a fetchOptions() call is in
\* flight, for the mount-time load and any refreshOptions() calls,
\* overlapping ones included.
\* ------------------------------------------------------------------------
C8_LoadingTracksCalls == loadingOptions <=> ~NoCallInFlight

C10_DebounceStabilizes ==
    LET last == recentChanges[Len(recentChanges)]
    IN  /\ (recentChanges # <<>> /\ now > last + DebounceDelay)
              => debouncedQuery = searchQuery
        /\ (recentChanges # <<>> /\ now >= last + DebounceDelay
                /\ timers = {})
              => debouncedQuery = searchQuery
        /\ (recentChanges = <<0, 100, 250>>
                /\ (now > 550 \/ (now = 550 /\ timers = {})))
              => debouncedQuery = searchQuery

\* Scenario D: the timer of the change at t = 250 has fired at t = 550
C10_Witness ==
    /\ recentChanges = <<0, 100, 250>>
    /\ now = 550
    /\ lastOp.op = "debounceTimerFires"
    /\ searchQuery = <<"u", "p">>
    /\ debouncedQuery = <<"u", "p">>

\* ------------------------------------------------------------------------
\* C11: the debounced value changes only when a timer fires, and then to
\* the text the search box holds and has held, unchanged, for the whole
\* delay; a text replaced within the delay is never published; at most one
\* timer is pending.
\* ------------------------------------------------------------------------
C11_LastWriteWins ==
    /\ [](Cardinality(timers) <= 1)
    /\ [][debouncedQuery' # debouncedQuery =>
            /\ lastOp'.op = "debounceTimerFires"
            /\ debouncedQuery' = searchQuery
            /\ recentChanges # <<>>
            /\ now >= recentChanges[Len(recentChanges)] + DebounceDelay]_vars

\* "u" typed at t = 0 was replaced by "up" at t = 100: nothing was published
\* at t = 300, and "up" is published at t = 400
C11_Witness ==
    /\ recentChanges = <<0, 100>>
    /\ now = 400
    /\ lastOp.op = "debounceTimerFires"
    /\ searchQuery = <<"u", "p">>
    /\ debouncedQuery = <<"u", "p">>
    /\ timers = {}

\* ------------------------------------------------------------------------
\* C12: once the Header is torn down no timer is pending, and the debounced
\* value never changes again, however much time passes.
\* ------------------------------------------------------------------------
C12_TeardownCancels ==
    /\ [](~mounted => timers = {})
    /\ [][~mounted => debouncedQuery' = debouncedQuery]_vars

\* "up" was typed at t = 100 and the Header torn down before t = 400: at
\* t = 500 the debounced value is still the empty text
C12_Witness ==
    /\ ~mounted
    /\ recentChanges = <<100>>
    /\ searchQuery = <<"u", "p">>
    /\ debouncedQuery = EmptyStr
    /\ now = 500
    /\ lastOp.op = "tick"

\* ------------------------------------------------------------------------
\* C13: each single-field setter replaces its own field by its argument and
\* leaves the six other fields, the catalog, the loading flag and the error
\* as they were, whatever the catalog load is doing at that moment.
\* ------------------------------------------------------------------------
C13_CatalogKept ==
    UNCHANGED <<filterOptions, loadingOptions, optionsError>>

C13_SingleFieldFrame ==
    [][/\ lastOp'.op = "setDistrictFilter" =>
            /\ \E x \in DistrictInputs :
                   filters' = [filters EXCEPT !.district = x]
            /\ C13_CatalogKept
       /\ lastOp'.op = "setYearFilter" =>
            /\ \E x \in YearInputs : filters' = [filters EXCEPT !.year = x]
            /\ C13_CatalogKept
       /\ lastOp'.op = "setMonthFilter" =>
            /\ \E x \in MonthInputs : filters' = [filters EXCEPT !.month = x]
            /\ C13_CatalogKept
       /\ lastOp'.op = "setMetricTypeFilter" =>
            /\ \E x \in MetricTypeInputs :
                   filters' = [filters EXCEPT !.metricType = x]
            /\ C13_CatalogKept
       /\ lastOp'.op = "setAgeGroupFilter" =>
            /\ \E x \in AgeGroupInputs :
                   filters' = [filters EXCEPT !.ageGroup = x]
            /\ C13_CatalogKept
       /\ lastOp'.op = "setIndexTypeFilter" =>
            /\ \E x \in IndexTypeInputs :
                   filters' = [filters EXCEPT !.indexType = x]
            /\ C13_CatalogKept
      ]_vars

\* the year was set while region, district and month were set and the
\* catalog had been loaded: they are all still there
C13_Witness ==
    /\ lastOp.op = "setYearFilter"
    /\ prevFilters.year = Undefined
    /\ filters.year = Some(2025)
    /\ filters.state = Some(S_UP)
    /\ filters.district = Some(D_UP_D1)
    /\ filters.month = Some(12)
    /\ filterOptions = Some(RemoteOptionsA)
    /\ ~loadingOptions

\* ------------------------------------------------------------------------
\* C14: after clearFilters, from any state, all seven fields are unset and
\* the query string is empty; clearing the cleared filters changes nothing.
\* ------------------------------------------------------------------------
C14_ClearResets ==
    lastOp.op = "clearFilters" =>
        /\ DOMAIN filters = {"state", "district", "year", "month",
                             "metricType", "ageGroup", "indexType"}
        /\ \A k \in DOMAIN filters : filters[k] = Undefined
        /\ buildQueryString = EmptyStr

\* all seven fields were set before the clear
C14_Witness ==
    /\ lastOp.op = "clearFilters"
    /\ \A k \in DOMAIN prevFilters : IsSet(prevFilters[k])
    /\ \A k \in DOMAIN filters : ~IsSet(filters[k])

\* ------------------------------------------------------------------------
\* C15: after setFilters(f) the filters are f, field for field: nothing is
\* cleared, also when f has a district and no state and the state that was
\* selected before is dropped by f.
\* ------------------------------------------------------------------------
C15_SetAllVerbatim ==
    lastOp.op = "setFilters" =>
        /\ lastOp.arg \in FilterSetInputs
        /\ \A k \in DOMAIN lastOp.arg : filters[k] = lastOp.arg[k]
        /\ DOMAIN filters = DOMAIN lastOp.arg

\* a state was selected; setFilters installed a district without a state
C15_Witness ==
    /\ lastOp.op = "setFilters"
    /\ IsSet(prevFilters.state)
    /\ ~IsSet(filters.state)
    /\ IsSet(filters.district)

\* ------------------------------------------------------------------------
\* C16: every mutation of the filters (each setter, setFilters, clearFilters,
\* from any state) installs an object other than the one held before, so
\* that a comparison by identity sees the change.
\* ------------------------------------------------------------------------
FilterMutations ==
    {"setStateFilter", "setDistrictFilter", "setYearFilter", "setMonthFilter",
     "setMetricTypeFilter", "setAgeGroupFilter", "setIndexTypeFilter",
     "setFilters", "clearFilters"}

C16_MutationChangesIdentity ==
    [][lastOp'.op \in FilterMutations => filtersRef' # filtersRef]_vars

\* ------------------------------------------------------------------------
\* C19 as stated: on HeatmapPage and on ChartsPage alike, every filter
\* mutation issues a data request carrying the new filters.
\* ------------------------------------------------------------------------
C19_EveryPageRefetches ==
    [][lastOp'.op \in FilterMutations =>
           pageFetches' = Append(pageFetches, filters')]_vars

\* C19 amended: on HeatmapPage every filter mutation made through the filter
\* bar issues a data request carrying the new filters; on ChartsPage a
\* filter mutation issues none, and a request is issued only by "Generate
\* Visuals", carrying the filters of that moment.
C19_HeatmapRefetchesChartsOnDemand ==
    [][/\ (lastOp'.op \in FilterMutations /\ page = "heatmap") =>
            pageFetches' = Append(pageFetches, filters')
       /\ (lastOp'.op \in FilterMutations /\ page = "charts") =>
            pageFetches' = pageFetches
       /\ lastOp'.op = "handleGenerateVisuals" =>
            /\ page = "charts"
            /\ filters' = filters
            /\ pageFetches' = Append(pageFetches, filters)
      ]_vars

\* HeatmapPage: the year was set while the mount-time request was in flight,
\* and a second request, for the new filters, was issued
C19_Witness ==
    /\ page = "heatmap"
    /\ lastOp.op = "setYearFilter"
    /\ filters.year = Some(2025)
    /\ pageFetches = <<INITIAL_FILTERS, filters>>
    /\ pageLoading

\* ------------------------------------------------------------------------
\* C17: search() is called only with a debounced query of at least two
\* characters and exactly once per change of the debounced value; when the
\* debounced value changes to fewer than two characters no call is made and
\* the result list is emptied and hidden.
\* ------------------------------------------------------------------------
C17_SearchThreshold ==
    /\ [](\A i \in 1..Len(searchCalls) : Len(searchCalls[i]) >= 2)
    /\ [][debouncedQuery' # debouncedQuery =>
            IF Len(debouncedQuery') >= 2
              THEN searchCalls' = Append(searchCalls, debouncedQuery')
              ELSE /\ searchCalls' = searchCalls
                   /\ searchResults' = <<>>
                   /\ showSearchResults' = FALSE]_vars
    /\ [][debouncedQuery' = debouncedQuery =>
            \/ searchCalls' = searchCalls
            \/ \E i \in 1..Len(searchCalls) :
                   searchCalls' = RemoveAt(searchCalls, i)]_vars

\* "No" was searched and its results shown; the box then held "u" for the
\* delay: no search is in flight and the list is empty and hidden
C17_Witness ==
    /\ lastOp.op = "debounceTimerFires"
    /\ recentChanges = <<0, 300>>
    /\ debouncedQuery = <<"u">>
    /\ searchCalls = <<>>
    /\ searchResults = <<>>
    /\ ~showSearchResults
    /\ ~isSearching

\* ------------------------------------------------------------------------
\* C18: when a search fails the results become the mock results whose
\* title contains the query of that search, letter case ignored, the
\* dropdown flag is set and isSearching is false again.
\* ------------------------------------------------------------------------
C18_Ids(results) == [i \in 1..Len(results) |-> results[i].id]

C18_SearchFailureMocked ==
    lastOp.op = "performSearchCatch" =>
        /\ isSearching = FALSE
        /\ showSearchResults = TRUE
        /\ \A i \in 1..Len(searchResults) :
               /\ \E j \in 1..Len(MockSearchResults) :
                      MockSearchResults[j] = searchResults[i]
               /\ Includes(ToLowerCase(searchResults[i].title),
                           ToLowerCase(lastOp.arg))
        /\ \A j \in 1..Len(MockSearchResults) :
               Includes(ToLowerCase(MockSearchResults[j].title),
                        ToLowerCase(lastOp.arg))
                 => \E i \in 1..Len(searchResults) :
                        searchResults[i] = MockSearchResults[j]
        /\ lastOp.arg = <<"N", "o">> =>
               C18_Ids(searchResults) = <<"2", "3">>
        /\ lastOp.arg = <<"u", "p">> => searchResults = <<>>

\* the search for "No" failed: Lucknow and Anomaly Detected are shown
C18_Witness ==
    /\ lastOp.op = "performSearchCatch"
    /\ lastOp.arg = <<"N", "o">>
    /\ Len(searchResults) = 2
    /\ searchResults[1].title = <<"L", "u", "c", "k", "n", "o", "w">>
    /\ showSearchResults
    /\ ~isSearching

\* ------------------------------------------------------------------------
\* C20: when the login request fails, for whatever reason, login() ends
\* authenticated, not loading, without error, with a demo user carrying the
\* e-mail address that was entered; a token starting with "demo-token-" and
\* that user are in the session storage; and a later mount that finds them
\* restores the authenticated session without a request to the backend.
\* ------------------------------------------------------------------------
C20_StoredDemoSession ==
    /\ IsSet(sessionStorage.auth_token)
    /\ IsSet(sessionStorage.auth_user)
    /\ Len(Val(sessionStorage.auth_token)) >= 11
    /\ SubSeq(Val(sessionStorage.auth_token), 1, 11) =
          <<"d", "e", "m", "o", "-", "t", "o", "k", "e", "n", "-">>

C20_DemoLogin ==
    /\ lastOp.op = "loginCatch" =>
          /\ authState.isAuthenticated = TRUE
          /\ authState.isLoading = FALSE
          /\ authState.error = Undefined
          /\ IsSet(authState.user)
          /\ Val(authState.user).email = lastOp.arg.email
          /\ Val(authState.user).id = "demo-user-1"
          /\ C20_StoredDemoSession
          /\ JsonParse(Val(sessionStorage.auth_user)) = Val(authState.user)
          /\ authCall = Undefined
    /\ (lastOp.op = "initAuth" /\ C20_StoredDemoSession) =>
          /\ authState.isAuthenticated = TRUE
          /\ authState.isLoading = FALSE
          /\ authState.error = Undefined
          /\ authState.user = Some(JsonParse(Val(sessionStorage.auth_user)))
          /\ authCall = Undefined

\* the login of a.b@x failed at time 1234 and the page was loaded again:
\* the demo user is back, and no request is in flight
C20_Witness ==
    /\ lastOp.op = "initAuth"
    /\ sessionStorage.auth_token =
          Some(DemoTokenPrefix \o <<"1", "2", "3", "4">>)
    /\ authState.isAuthenticated
    /\ IsSet(authState.user)
    /\ Val(authState.user).email = <<"a", ".", "b", "@", "x">>
    /\ Val(authState.user).name = <<"A", " ", "B">>
    /\ accessToken = Undefined
    /\ authCall = Undefined

\* ------------------------------------------------------------------------
\* C21: setStateFilter(x) sets the state to x in one step; year, month,
\* metricType, ageGroup and indexType stay as they were; when x is the
\* current state the district, and so the whole filter set, stays as it
\* was; when x is another state the district is unset in that same step.
\* ------------------------------------------------------------------------
C21_SetStateFrame ==
    [][lastOp'.op = "setStateFilter" =>
         /\ \E x \in RegionInputs : filters'.state = x
         /\ \A k \in {"year", "month", "metricType", "ageGroup", "indexType"} :
                filters'[k] = filters[k]
         /\ filters'.state = filters.state => filters' = filters
         /\ filters'.state # filters.state => filters'.district = Undefined
      ]_vars

\* UP was selected again while UP and one of its districts were selected:
\* the district is kept, with the year and the month
C21_Witness ==
    /\ lastOp.op = "setStateFilter"
    /\ prevFilters.state = Some(S_UP)
    /\ filters.state = Some(S_UP)
    /\ filters.district = Some(D_UP_D1)
    /\ filters.year = Some(2025)
    /\ filters.month = Some(12)
    /\ filters = prevFilters

\* ------------------------------------------------------------------------
\* C22: the setters and the catalog load do not disturb each other, however
\* they interleave: a setter can run before the load has answered, while
\* its answer waits and after it completed; while there is no catalog the
\* district list is empty; the steps of the load leave the filters as the
\* setters left them; and no setter touches the catalog, the loading flag
\* or the error.
\* ------------------------------------------------------------------------
C22_LoadSteps ==
    {"metadataResolves", "metadataRejects", "fetchOptionsThen",
     "fetchOptionsCatch"}

C22_Independent ==
    /\ [](/\ ENABLED setYearFilter(Some(2025))
          /\ ENABLED setStateFilter(Some(S_BR))
          /\ ENABLED setDistrictFilter(Some(D_UP_D1))
          /\ ENABLED clearFilters)
    /\ [](~IsSet(filterOptions) => filteredDistricts = <<>>)
    /\ [][lastOp'.op \in C22_LoadSteps =>
            /\ filters' = filters
            /\ filtersRef' = filtersRef]_vars
    /\ [][lastOp'.op \in FilterMutations =>
            UNCHANGED <<filterOptions, loadingOptions, optionsError,
                        calls>>]_vars

\* UP and 2025 were selected while the load was pending; the load then
\* failed and completed with the fallback catalog: the filters are as set
C22_Witness ==
    /\ lastOp.op = "fetchOptionsCatch"
    /\ filters.state = Some(S_UP)
    /\ filters.year = Some(2025)
    /\ filters = prevFilters
    /\ filterOptions = Some(FallbackOptions)
    /\ ~loadingOptions

\* ------------------------------------------------------------------------
\* C23: when logout() has settled, whether /auth/logout answered or failed,
\* the in-memory token, the stored auth_token and the stored auth_user are
\* gone and the auth state is {user: null, isAuthenticated: false,
\* isLoading: false, error: null}.
\* ------------------------------------------------------------------------
C23_LogoutClears ==
    lastOp.op = "logoutFinally" =>
        /\ accessToken = <<>>
        /\ sessionStorage.auth_token = <<>>
        /\ sessionStorage.auth_user = <<>>
        /\ authState = [user |-> <<>>, isAuthenticated |-> FALSE,
                        isLoading |-> FALSE, error |-> <<>>]

\* the logout request failed on the network: the session is gone all the same
C23_Witness ==
    /\ lastOp.op = "logoutFinally"
    /\ lastOp.arg = "network"
    /\ accessToken = Undefined
    /\ sessionStorage = EmptyStorage
    /\ ~authState.isAuthenticated

\* ------------------------------------------------------------------------
\* C24: whenever a data request is answered 401 while the user is
\* authenticated, the stored token and user are cleared, the call fails
\* with the session-expired error, and the auth state becomes
\* isAuthenticated = false (the login view is shown).
\* ------------------------------------------------------------------------
C24_UnauthorizedEndsSession ==
    lastOp.op = "apiFetchUnauthorized" =>
        /\ accessToken = Undefined
        /\ sessionStorage.auth_token = Undefined
        /\ sessionStorage.auth_user = Undefined
        /\ lastOp.arg = "Session expired. Please login again."
        /\ ~authState.isAuthenticated

\* ------------------------------------------------------------------------
\* C25: for every filter value, the hook's buildQueryString() and the
\* service's buildQueryString(filters) return the same string, which is
\* what fetchHeatmapData and fetchVisualsData put behind their paths.
\* ------------------------------------------------------------------------
C25_SerializersAgree ==
    /\ buildQueryString = apiBuildQueryString(filters)
    /\ fetchHeatmapDataUrl(filters) = HeatmapPath \o buildQueryString
    /\ fetchVisualsDataUrl(filters) = VisualsPath \o buildQueryString

\* a value with an encoded region, a number, and a falsy field both drop
C25_Witness ==
    /\ filters.state = Some(S_UP)
    /\ filters.year = Some(0)
    /\ filters.month = Some(12)
    /\ buildQueryString # <<>>
    /\ buildQueryString = apiBuildQueryString(filters)

\* ------------------------------------------------------------------------
\* C26: on HeatmapPage, under every interleaving of filter mutations and
\* fetch completions, the loading flag is true while a heatmap fetch is in
\* flight, and once every fetch has settled the loading flag is false and
\* the displayed data is the result of the fetch issued for the filters
\* now applied.
\* ------------------------------------------------------------------------
C26_HeatmapFresh ==
    page = "heatmap" =>
        /\ pageFetches # <<>> => pageLoading
        /\ pageFetches = <<>> =>
              /\ ~pageLoading
              /\ IsSet(pageData)
              /\ Val(pageData).filters = filters

\* ------------------------------------------------------------------------
\* C27: under every interleaving of keystrokes, debounce firings and search
\* completions, the result list is empty whenever the debounced query has
\* fewer than 2 characters, and once every search in flight has settled the
\* displayed results are those of the search issued for the debounced
\* query of that moment.
\* ------------------------------------------------------------------------
C27_Completions == {"performSearchThen", "performSearchCatch"}

C27_ResultsFollowQuery ==
    /\ Len(debouncedQuery) < MinSearchLength => searchResults = <<>>
    /\ (searchCalls = <<>> /\ lastOp.op \in C27_Completions) =>
           lastOp.arg = debouncedQuery

\* ------------------------------------------------------------------------
\* C28: after any sequence of addNotification, markAsRead, markAllAsRead
\* and clearNotifications the list holds at most 50 notifications, newest
\* first; an add puts the new, unread notification in front and, beyond 50,
\* drops the oldest; unreadCount is the number of entries with read =
\* false; markAsRead(id) changes only the entries with that id, which
\* become read; unreadCount is 0 right after markAllAsRead and after
\* clearNotifications.
\* ------------------------------------------------------------------------
C28_NotificationStore ==
    /\ [](Len(notifications) <= 50)
    /\ [](\A i, j \in DOMAIN notifications :
             i < j => notifications[i].timestamp >= notifications[j].timestamp)
    /\ [](unreadCount =
             Cardinality({i \in DOMAIN notifications :
                            notifications[i].read = FALSE}))
    /\ [](lastOp.op \in {"markAllAsRead", "clearNotifications"} =>
             unreadCount = 0)
    /\ [][lastOp'.op = "addNotification" =>
            /\ Len(notifications') =
                  IF Len(notifications) < 50 THEN Len(notifications) + 1
                                             ELSE 50
            /\ notifications'[1].read = FALSE
            /\ notifications'[1].timestamp = notifClock'
            /\ \A i \in 2..Len(notifications') :
                   notifications'[i] = notifications[i - 1]
         ]_vars
    /\ [][lastOp'.op = "markAsRead" =>
            /\ Len(notifications') = Len(notifications)
            /\ \A i \in DOMAIN notifications :
                   notifications'[i] =
                      IF notifications[i].id = lastOp'.arg
                        THEN [notifications[i] EXCEPT !.read = TRUE]
                        ELSE notifications[i]
         ]_vars

\* the 52nd add: the list is full, the two oldest entries are gone, the
\* oldest one left was marked as read and nothing else
C28_Witness ==
    /\ lastOp.op = "addNotification"
    /\ Len(notifications) = 50
    /\ notifications[1].timestamp = 52
    /\ notifications[50].timestamp = 3
    /\ notifications[50].read
    /\ unreadCount = 49

\* ------------------------------------------------------------------------
\* C29: in every reachable AuthContext state, over init, login,
\* loginWithGoogle, logout and checkAuth in any order and with any outcome,
\* isAuthenticated is true exactly when user is non-null; a failed
\* loginWithGoogle leaves user and isAuthenticated as they were, sets the
\* error, sets isLoading = false, and rethrows.
\* ------------------------------------------------------------------------
C29_AuthStateInvariant ==
    /\ [](authState.isAuthenticated <=> authState.user # <<>>)
    /\ [][lastOp'.op = "loginWithGoogleCatch" =>
            /\ authState'.user = authState.user
            /\ authState'.isAuthenticated = authState.isAuthenticated
            /\ authState'.error # <<>>
            /\ authState'.error = Some(lastOp'.arg.error)
            /\ authState'.isLoading = FALSE
            /\ lastOp'.arg.rethrown
         ]_vars

\* the Google login failed on the network: the error is shown on the login
\* page, nobody is logged in
C29_Witness ==
    /\ lastOp.op = "loginWithGoogleCatch"
    /\ authState.error = Some("Failed to fetch")
    /\ ~authState.isLoading
    /\ ~authState.isAuthenticated
    /\ authState.user = Undefined

\* ------------------------------------------------------------------------
\* C30: after any sequence of setAuthToken, clearAuthData, login,
\* googleLogin, refreshToken and logout within one page session, an
\* in-memory token that is not null equals the stored auth_token;
\* getAuthToken() returns the token most recently set, and null after
\* setAuthToken(null) and after clearAuthData(), which also removes the
\* stored user.
\* ------------------------------------------------------------------------
C30_TokenSetters ==
    {"setAuthToken", "loginThen", "loginCatch", "loginWithGoogleThen",
     "refreshTokenThen"}

C30_TokenConsistent ==
    /\ accessToken # <<>> => accessToken = sessionStorage.auth_token
    /\ lastOp.op \in C30_TokenSetters => getAuthToken = lastOp.token
    /\ lastOp.op \in {"clearAuthData", "logoutFinally"} =>
          /\ getAuthToken = <<>>
          /\ sessionStorage.auth_user = <<>>

====
